---- MODULE Spec2Model ----
(***************************************************************************)
(* A model of the punctuation-aware tokenizer of kparser.h: the            *)
(* punctuation lookup parser_is_punctuation, the scan loop of parser_init  *)
(* (one action per loop iteration) and the cursor operations               *)
(* parser_get_token, parser_peek_token, parser_unget_token and             *)
(* parser_get_line.  Spec is one caller; ThreadSpec is parser_get_token    *)
(* called from two threads on one parser.                                  *)
(*                                                                         *)
(* Bytes are one-character strings, a C string is a sequence of bytes and  *)
(* the byte at C index i of a string s is s[i+1]; the terminating NUL at   *)
(* index Len(s) is the byte NUL.  Reads the C standard leaves undefined    *)
(* (an uninitialised field, a slot outside an array) are a choice over a   *)
(* small set of values.                                                    *)
(***************************************************************************)
EXTENDS Integers, Sequences, FiniteSets, TLC

(***************************************************************************)
(* Bounds of the model.                                                    *)
(***************************************************************************)
\* longest buffer of the exhaustively enumerated inputs
MaxLen == 3
\* how far a loop that no longer advances is followed: tokens emitted
\* beyond buffer_size, and slack of the modulus of a spinning end_offset
MaxSpin == 2
\* parser_get_token calls one thread makes
MaxCalls == 2
\* largest kmem_allocation_state.count at which an allocation is made, and
\* the number of addresses malloc has to give
MaxTracked == 3
\* largest capacity of the string of the fstr functions
MaxCap == 3

(***************************************************************************)
(* Program constants.                                                      *)
(***************************************************************************)
P_ACCEPT_SINGLEQUOTES == 1
P_ACCEPT_DOUBLEQUOTES == 2
\* p->tokens.capacity = 255
InitialCapacity == 255
\* .id of the end-of-stream token
EofId == -2
\* .len of the end-of-stream token
EofLen == 3
\* token.id of a word
WordId == -1
\* sizeof(token_t) where int has 4 bytes and a pointer and intmax_t have 8
TokenSize == 40

NUL == "NUL"
\* token.token of the end-of-stream token (.token = nullptr)
Nullptr == <<"nullptr">>
\* what a read of memory that holds no token text yields
Garbled == <<"garbage">>

Min(a, b) == IF a < b THEN a ELSE b

(***************************************************************************)
(* Inputs: buffers, punctuation tables, option sets.                       *)
(***************************************************************************)
Alphabet == {"a", " ", "<", "\n", "\""}

GenBuffers == UNION {[1..k -> Alphabet] : k \in 0..MaxLen}

NamedBuffers ==
    { <<"(", "a", "+", "b", ")">>,
      <<"\"", "a", "\\", "\"", "b", "\"", " ", "c">>,
      <<"\"", "\\", "a", "a", "\"">>,
      <<"'", "a", "'", " ", "b">>,
      <<"'", "a">>,
      <<"a", "\n", "b">>,
      <<"a", " ", "\n", "b">>,
      <<"a", "\r", "\n", "b">>,
      <<"a", "\r", "b">>,
      <<"\t", "a", "\t">>,
      <<"a", "<", "<", "b">>,
      <<"a", " ", "<", " ">> }

\* punc_t: .p the literal, .id the caller's id, .len = strlen(.p)
Punc(p, id) == [p |-> p, id |-> id, len |-> Len(p)]

ShiftFirstTable == << Punc(<<"<", "<">>, 0), Punc(<<"<">>, 1) >>
PrefixFirstTable == << Punc(<<"<">>, 1), Punc(<<"<", "<">>, 0) >>
ParenTable == << Punc(<<"(">>, 0), Punc(<<")">>, 1), Punc(<<"+">>, 2) >>
EmptyTable == << >>

Tables == {EmptyTable, ShiftFirstTable, PrefixFirstTable, ParenTable}

OptionSets == 0..3

\* values an out-of-bounds or uninitialised integer read is given
GarbageInts == {0, 7}
\* values the int before the punctuation array, read as items[-1].len, is
\* given
GarbageLens == {0, 1}
\* values the byte before the buffer, read as buffer[-1], is given
GarbageBytes == {"x", "\\"}
\* values the never-assigned p->current_token is given
UninitCursor == {-1, 0, 1}
\* which _KMALLOC calls of parser_init return a null pointer: none, the one
\* for the parser record, the one for the token array, the ones for the
\* text of a token
AllocFailures == {"none", "record", "items", "text"}
\* the threads that share one parser
Threads == {1, 2}
\* kmem_allocation_state.capacity after the first _kmem_append
KmemCapacity == 256
\* the addresses malloc and calloc return
Pointers == 1..MaxTracked

VARIABLES
    buffer,         \* p->buffer, without its terminating NUL
    punctuation,    \* p->punctuation->items[0 .. count-1]
    options,        \* p->options
    buffer_before,  \* the byte in memory before buffer[0]
    punc_len_before,\* the int in memory where items[-1].len is read
    alloc_fails,    \* the _KMALLOC calls that return a null pointer
    pc,             \* position inside parser_init; "ready" once it returned
                    \* p, "null" once it returned nullptr, "crashed" when
                    \* a store through a null pointer ended the process
    i,              \* loop variable of parser_init
    current_line,   \* local of parser_init
    is_punc,        \* local of parser_init
    start_offset,   \* local of parser_init
    end_offset,     \* local of parser_init
    start_line,     \* local of parser_init
    tokens,         \* p->tokens.items[0 .. count-1]
    capacity,       \* p->tokens.capacity
    current_token,  \* p->current_token
    ret,            \* token returned by the last get/peek call
    line_ret,       \* value returned by the last parser_get_line call
    read_slots,     \* indexes of p->tokens.items the last call read
    last_op,        \* the last call made on the parser
    cursor_before,  \* p->current_token when the last call was made
    gets,           \* number of parser_get_token calls made since
                    \* parser_init when nothing else was called, else -1
    stray,          \* the accesses parser_init made outside the objects it
                    \* was given or allocated
    th,             \* per thread inside parser_get_token: its position,
                    \* the cursor value it loaded, the slots it returned
                    \* and the calls it completed
    kmem,           \* kmem_allocation_state of kalloc.h, with the pointers
                    \* the heap holds
    fstr            \* the string of the fstr functions: its header, its
                    \* bytes and what the last call did

vars == << buffer, punctuation, options, buffer_before, punc_len_before,
          alloc_fails, pc, i, current_line, is_punc,
           start_offset, end_offset, start_line, tokens, capacity,
           current_token, ret, line_ret, read_slots, last_op, cursor_before,
           gets, stray, th, kmem, fstr >>

inputs == << buffer, punctuation, options, buffer_before, punc_len_before,
             alloc_fails >>
libs == << kmem, fstr >>
parser_state == << buffer, punctuation, options, buffer_before,
                   punc_len_before, alloc_fails, pc, i, current_line,
                   is_punc, start_offset, end_offset, start_line, tokens,
                   capacity, current_token, ret, line_ret, read_slots,
                   last_op, cursor_before, gets, stray, th >>
scan_locals == << i, current_line, is_punc, start_offset, end_offset, start_line >>
cursor_obs == << ret, line_ret, read_slots, last_op, cursor_before, gets >>

\* p->buffer_size = strlen(buffer)
buffer_size == Len(buffer)
\* p->tokens.count
count == Len(tokens)

\* p->buffer[k] for -1 <= k <= buffer_size
BufAt(k) ==
    IF k < 0 THEN buffer_before
    ELSE IF k < buffer_size THEN buffer[k + 1] ELSE NUL

\* items[k].p[j] for 0 <= j <= items[k].len
PuncAt(k, j) ==
    IF j < Len(punctuation[k + 1].p) THEN punctuation[k + 1].p[j + 1] ELSE NUL

NoToken == [id |-> 0, token |-> <<>>, len |-> 0, line |-> 0, offset |-> 0]

(***************************************************************************)
(* parser_is_punctuation                                                   *)
(***************************************************************************)
\* The inner while loop for entry k: TRUE when it is left with found_punc
\* still 1, that is when ++offset reaches buffer_size, or ++p_index reaches
\* the entry's len, before a byte differs.
RECURSIVE match_remaining(_, _, _)
match_remaining(k, offset, p_index) ==
    IF ~(offset + 1 < buffer_size) THEN TRUE
    ELSE IF ~(p_index + 1 < punctuation[k + 1].len) THEN TRUE
    ELSE IF BufAt(offset + 1) # PuncAt(k, p_index + 1) THEN FALSE
    ELSE match_remaining(k, offset + 1, p_index + 1)

\* The for loop over the entries from index k on: the first entry whose
\* first byte equals buffer[start_off] and whose while loop keeps
\* found_punc; -1 when there is none.
RECURSIVE is_punctuation_from(_, _)
is_punctuation_from(k, start_off) ==
    IF ~(k < Len(punctuation)) THEN -1
    ELSE IF BufAt(start_off) = PuncAt(k, 0) /\ match_remaining(k, start_off, 0)
         THEN k
         ELSE is_punctuation_from(k + 1, start_off)

parser_is_punctuation(start_off) == is_punctuation_from(0, start_off)

(***************************************************************************)
(* parser_init                                                             *)
(***************************************************************************)
\* while (p->buffer[i] == ' ' && i < p->buffer_size) i++;
RECURSIVE skip_spaces(_)
skip_spaces(k) ==
    IF BufAt(k) = " " /\ k < buffer_size THEN skip_spaces(k + 1) ELSE k

\* if (p->buffer[i] == '\r' && i < p->buffer_size) i++;
skip_cr(k) == IF BufAt(k) = "\r" /\ k < buffer_size THEN k + 1 ELSE k

\* p->options & flag, for the two one-bit flags
has_option(flag) == (options \div flag) % 2 = 1

\* strncpy(token.token, buffer + start, len): the bytes up to the NUL
token_text(start, len) == SubSeq(buffer, start + 1, Min(start + len, buffer_size))

\* is_escaped in the quote loops; buffer[k-1] is the byte before the buffer
\* when k = 0
is_escaped(k) ==
    IF k < buffer_size - 1 /\ BufAt(k - 1) = "\\" THEN 1 ELSE 0

\* kmem_allocation_state as the program starts: no items, count 0 and
\* capacity -1; heap holds the pointers malloc returned that were not freed
kmem_allocation_state ==
    [items |-> << >>, count |-> 0, capacity |-> -1, heap |-> {}]

\* no string was created
no_string ==
    [len |-> 0, cap |-> 0, bytes |-> << >>, op |-> "none", len_before |-> 0,
     outside |-> {}]

\* no thread is inside parser_get_token
idle_threads == [t \in Threads |-> [pc |-> "idle", reg |-> 0, got |-> << >>, calls |-> 0]]

\* The state when parser_init is entered.  The runs in which an allocation
\* fails are enumerated for options = 0 and for the memory outside the
\* arrays that does the scan no harm.
parser_init_entry ==
    /\ punctuation \in Tables
    /\ options \in OptionSets
    /\ buffer_before \in GarbageBytes
    /\ punc_len_before \in GarbageLens
    /\ alloc_fails \in AllocFailures
    /\ alloc_fails # "none"
          => (options = 0 /\ buffer_before = "x" /\ punc_len_before = 0)
    /\ kmem = kmem_allocation_state
    /\ fstr = no_string
    /\ stray = {}
    /\ th = idle_threads
    /\ pc = "alloc"
    /\ i = 0
    /\ current_line = 0
    /\ is_punc = -1
    /\ start_offset = 0
    /\ end_offset = 0
    /\ start_line = 0
    /\ tokens = << >>
    /\ capacity = InitialCapacity
    /\ current_token = 0
    /\ ret = NoToken
    /\ line_ret = 0
    /\ read_slots = {}
    /\ last_op = "none"
    /\ cursor_before = 0
    /\ gets = -1

Init ==
    /\ buffer \in GenBuffers \cup NamedBuffers
    /\ parser_init_entry

\* The allocation of the parser record: parser_init returns nullptr when it
\* fails.  The token array is allocated next and its pointer is not tested.
parser_init_alloc ==
    /\ pc = "alloc"
    /\ pc' = IF alloc_fails = "record" THEN "null" ELSE "for"
    /\ UNCHANGED << inputs, scan_locals, tokens, capacity, current_token,
                    cursor_obs, stray, th, libs >>

\* One iteration of the for loop up to the choice of the branch: the
\* skipping of spaces and of one '\r', the line count, the punctuation
\* lookup and the locals of the word branch.
parser_init_body ==
    /\ pc = "for"
    /\ i < buffer_size
    /\ LET i1 == skip_spaces(i)
           i2 == skip_cr(i1)
           line1 == IF BufAt(i2) = "\n" THEN current_line + 1 ELSE current_line
           found == parser_is_punctuation(i2)
       IN /\ i' = i2
          /\ current_line' = line1
          /\ is_punc' = found
          /\ IF found = -1
             THEN /\ start_offset' = i2
                  /\ end_offset' = i2 + 1
                  /\ start_line' = line1
                  /\ pc' = IF has_option(P_ACCEPT_DOUBLEQUOTES) /\ BufAt(i2) = "\""
                           THEN "double_quote"
                           ELSE IF has_option(P_ACCEPT_SINGLEQUOTES) /\ BufAt(i2) = "'"
                           THEN "single_quote"
                           ELSE "word"
             ELSE /\ pc' = "emit"
                  /\ UNCHANGED << start_offset, end_offset, start_line >>
    /\ UNCHANGED << inputs, tokens, capacity, current_token, cursor_obs,
                    stray, th, libs >>

\* One iteration of a quote loop for the quote byte q, or its exit.  An
\* escaped iteration changes end_offset alone: the loop test and is_escaped
\* read i and the buffer only, so the iteration repeats for ever and
\* end_offset is never read again.  The model counts it modulo
\* buffer_size + 2 + MaxSpin, beyond every value a loop that ends reaches.
quote_loop(q) ==
    IF i < buffer_size
    THEN /\ stray' = IF i < buffer_size - 1 /\ i - 1 < 0
                     THEN stray \cup {"buffer[-1]"}
                     ELSE stray
         /\ IF is_escaped(i) = 0
            THEN /\ i' = i + 1
                 /\ IF BufAt(i + 1) = q
                    THEN pc' = "emit" /\ UNCHANGED end_offset
                    ELSE end_offset' = end_offset + 1 /\ UNCHANGED pc
            ELSE /\ end_offset' = (end_offset + 1) % (buffer_size + 2 + MaxSpin)
                 /\ UNCHANGED << i, pc >>
    ELSE pc' = "emit" /\ UNCHANGED << i, end_offset, stray >>

parser_init_double_quote ==
    /\ pc = "double_quote"
    /\ quote_loop("\"")
    /\ UNCHANGED << inputs, current_line, is_punc, start_offset, start_line,
                    tokens, capacity, current_token, cursor_obs, th, libs >>

parser_init_single_quote ==
    /\ pc = "single_quote"
    /\ quote_loop("'")
    /\ UNCHANGED << inputs, current_line, is_punc, start_offset, start_line,
                    tokens, capacity, current_token, cursor_obs, th, libs >>

\* One iteration of the plain-word loop, or its exit.  When a punctuation
\* starts at i the code sets is_punc to -1 and then steps back by
\* items[is_punc].len + 1, a read of the slot before the punctuation array.
parser_init_word ==
    /\ pc = "word"
    /\ IF i < buffer_size
       THEN LET i1 == skip_cr(i)
                line1 == IF BufAt(i1) = "\n" THEN current_line + 1 ELSE current_line
                found == parser_is_punctuation(i1)
            IN /\ current_line' = line1
               /\ is_punc' = -1
               /\ IF found > -1
                  THEN /\ i' = i1 - (punc_len_before + 1)
                       /\ pc' = "emit"
                       /\ stray' = stray \cup {"punctuation[-1]"}
                       /\ UNCHANGED end_offset
                  ELSE IF BufAt(i1) \in {"\n", "\t", " "}
                  THEN /\ i' = i1
                       /\ pc' = "emit"
                       /\ UNCHANGED << end_offset, stray >>
                  ELSE /\ i' = i1 + 1
                       /\ end_offset' = end_offset + 1
                       /\ UNCHANGED << pc, stray >>
       ELSE /\ pc' = "emit"
            /\ UNCHANGED << i, current_line, is_punc, end_offset, stray >>
    /\ UNCHANGED << inputs, start_offset, start_line, tokens, capacity,
                    current_token, cursor_obs, th, libs >>

\* the token built for a word or a quoted span
word_token ==
    [id |-> WordId,
     token |-> token_text(start_offset, (end_offset - start_offset) - 1),
     len |-> (end_offset - start_offset) - 1,
     line |-> start_line,
     offset |-> start_offset]

\* the token built for the punctuation entry k found at i
punc_token(k) ==
    [id |-> punctuation[k + 1].id,
     token |-> punctuation[k + 1].p,
     len |-> punctuation[k + 1].len,
     line |-> current_line,
     offset |-> i]

\* p->tokens.capacity after the growth check
grown_capacity == IF count >= capacity THEN capacity * 2 ELSE capacity

\* the bytes allocated for p->tokens.items when the capacity is cap:
\* sizeof(token_t) * 255 from _KMALLOC, and cap from
\* _KREALLOC(p->tokens.items, p->tokens.capacity) once the array has grown
items_bytes_of(cap) ==
    IF cap = InitialCapacity THEN TokenSize * InitialCapacity ELSE cap

items_bytes == items_bytes_of(capacity)

\* the bytes _KMALLOC(token.len) gives the text of a token
text_allocated(token) == token.len

\* the indexes of the text that parser_init writes: strncpy writes len
\* bytes and token.token[token.len] = 0 one more for a word, strcpy writes
\* the literal and its NUL for a punctuation
text_written(token) ==
    IF token.id = WordId THEN 0..token.len ELSE 0..Len(token.token)

\* parser_init_emit without `if (token.len == 0) continue;`
parser_init_emit_keeps_empty ==
    /\ pc = "emit"
    /\ count < buffer_size + MaxSpin
    /\ IF is_punc >= 0
       THEN LET token == punc_token(is_punc)
            IN /\ i' = (IF token.len > 1 THEN i + token.len ELSE i) + 1
               /\ tokens' = Append(tokens, token)
               /\ capacity' = grown_capacity
       ELSE LET token == word_token
            IN /\ i' = i + 1
               /\ tokens' = Append(tokens, token)
               /\ capacity' = grown_capacity
    /\ LET null_store ==
               \/ alloc_fails = "text"
               \/ alloc_fails = "items" /\ tokens' # tokens
           past_storage ==
               /\ tokens' # tokens
               /\ Len(tokens') * TokenSize > items_bytes_of(capacity')
       IN /\ stray' = stray \cup (IF null_store THEN {"null"} ELSE {})
                             \cup (IF past_storage THEN {"items[count]"} ELSE {})
          /\ IF null_store \/ past_storage
             THEN pc' \in {"for", "crashed"}
             ELSE pc' = "for"
    /\ start_offset' = 0
    /\ end_offset' = 0
    /\ start_line' = 0
    /\ UNCHANGED << inputs, current_line, is_punc, current_token, cursor_obs,
                    th, libs >>

\* The rest of the iteration: the token is built, an empty word is dropped,
\* the token is appended, and the for loop increments i.  A scan that ends
\* emits at most buffer_size tokens; one that steps back to where the
\* iteration began emits the same token for ever, and the model follows it
\* for MaxSpin tokens more.
\* The text of the token goes through a null pointer when the allocations
\* of text fail (strncpy or strcpy, and token.token[token.len] = 0), the
\* appended token when the allocation of the array failed.  The store ends
\* the process, or it lands in memory and the scan goes on; so does the
\* store of a token past the bytes of the array.
parser_init_emit ==
    /\ pc = "emit"
    /\ count < buffer_size + MaxSpin
    /\ IF is_punc >= 0
       THEN LET token == punc_token(is_punc)
            IN /\ i' = (IF token.len > 1 THEN i + token.len ELSE i) + 1
               /\ tokens' = Append(tokens, token)
               /\ capacity' = grown_capacity
       ELSE LET token == word_token
            IN IF token.len = 0
               THEN /\ i' = i + 1
                    /\ UNCHANGED << tokens, capacity >>
               ELSE /\ i' = i + 1
                    /\ tokens' = Append(tokens, token)
                    /\ capacity' = grown_capacity
    /\ LET null_store ==
               \/ alloc_fails = "text"
               \/ alloc_fails = "items" /\ tokens' # tokens
           past_storage ==
               /\ tokens' # tokens
               /\ Len(tokens') * TokenSize > items_bytes_of(capacity')
       IN /\ stray' = stray \cup (IF null_store THEN {"null"} ELSE {})
                             \cup (IF past_storage THEN {"items[count]"} ELSE {})
          /\ IF null_store \/ past_storage
             THEN pc' \in {"for", "crashed"}
             ELSE pc' = "for"
    /\ start_offset' = 0
    /\ end_offset' = 0
    /\ start_line' = 0
    /\ UNCHANGED << inputs, current_line, is_punc, current_token, cursor_obs,
                    th, libs >>

\* The for loop ends and parser_init returns p; p->current_token was never
\* assigned.
parser_init_return ==
    /\ pc = "for"
    /\ ~(i < buffer_size)
    /\ pc' = "ready"
    /\ current_token' \in UninitCursor
    /\ last_op' = "init"
    /\ gets' = 0
    /\ UNCHANGED << inputs, scan_locals, tokens, capacity, ret, line_ret, read_slots,
                    cursor_before, stray, th, libs >>

(***************************************************************************)
(* The cursor operations                                                   *)
(***************************************************************************)
\* what a read of an integer field outside the token sequence yields
garbage_token(g) == [id |-> g, token |-> Garbled, len |-> g, line |-> g, offset |-> g]

\* the outcomes of reading parser->tokens.items[k]: the token when k is an
\* index of the sequence, memory the parser never wrote when it is not.
\* The caller's code runs between two calls, so two such reads need not
\* agree.
read_slot(k) ==
    IF 0 <= k /\ k < count /\ (k + 1) * TokenSize <= items_bytes
    THEN {tokens[k + 1]}
    ELSE {garbage_token(g) : g \in GarbageInts}

\* the eof_token built from the slot before the cursor
eof_token(prev) ==
    [id |-> EofId,
     token |-> Nullptr,
     len |-> EofLen,
     line |-> prev.line + 1,
     offset |-> prev.offset + prev.len]

\* gets after one more parser_get_token call
next_gets == IF 0 <= gets /\ gets <= count THEN gets + 1 ELSE -1

parser_get_token ==
    /\ pc = "ready"
    /\ IF current_token < count
       THEN /\ \E t \in read_slot(current_token) : ret' = t
            /\ read_slots' = {current_token}
            /\ current_token' = current_token + 1
       ELSE /\ \E t \in read_slot(current_token - 1) : ret' = eof_token(t)
            /\ read_slots' = {current_token - 1}
            /\ UNCHANGED current_token
    /\ last_op' = "get"
    /\ cursor_before' = current_token
    /\ gets' = next_gets
    /\ line_ret' = 0
    /\ UNCHANGED << inputs, pc, scan_locals, tokens, capacity, stray, th, libs >>

\* parser_unget_token without the test current_token > 0
parser_unget_token_unclamped ==
    /\ pc = "ready"
    /\ current_token' = current_token - 1
    /\ last_op' = "unget"
    /\ cursor_before' = current_token
    /\ gets' = -1
    /\ ret' = NoToken
    /\ line_ret' = 0
    /\ read_slots' = {}
    /\ UNCHANGED << inputs, pc, scan_locals, tokens, capacity, stray, th, libs >>

parser_unget_token ==
    /\ pc = "ready"
    /\ current_token' = IF current_token > 0 THEN current_token - 1 ELSE current_token
    /\ last_op' = "unget"
    /\ cursor_before' = current_token
    /\ gets' = -1
    /\ ret' = NoToken
    /\ line_ret' = 0
    /\ read_slots' = {}
    /\ UNCHANGED << inputs, pc, scan_locals, tokens, capacity, stray, th, libs >>

parser_peek_token ==
    /\ pc = "ready"
    /\ IF current_token < count
       THEN /\ \E t \in read_slot(current_token + 1) : ret' = t
            /\ read_slots' = {current_token + 1}
       ELSE /\ \E t \in read_slot(current_token - 1) : ret' = eof_token(t)
            /\ read_slots' = {current_token - 1}
    /\ last_op' = "peek"
    /\ cursor_before' = current_token
    /\ gets' = -1
    /\ line_ret' = 0
    /\ UNCHANGED << inputs, pc, scan_locals, tokens, capacity, current_token,
                    stray, th, libs >>

parser_get_line ==
    /\ pc = "ready"
    /\ \E t \in read_slot(current_token) : line_ret' = t.line
    /\ read_slots' = {current_token}
    /\ last_op' = "line"
    /\ cursor_before' = current_token
    /\ gets' = -1
    /\ ret' = NoToken
    /\ UNCHANGED << inputs, pc, scan_locals, tokens, capacity, current_token,
                    stray, th, libs >>

parser_init_step ==
    \/ parser_init_alloc
    \/ parser_init_body
    \/ parser_init_double_quote
    \/ parser_init_single_quote
    \/ parser_init_word
    \/ parser_init_emit
    \/ parser_init_return

Next ==
    \/ parser_init_alloc
    \/ parser_init_body
    \/ parser_init_double_quote
    \/ parser_init_single_quote
    \/ parser_init_word
    \/ parser_init_emit
    \/ parser_init_return
    \/ parser_get_token
    \/ parser_unget_token
    \/ parser_peek_token
    \/ parser_get_line

Spec == Init /\ [][Next]_vars

(***************************************************************************)
(* parser_get_token called by several threads on one parser.  The function *)
(* holds no lock and current_token is a plain intmax_t, so the test of the *)
(* cursor, the load of the cursor for the index and the store of the       *)
(* incremented cursor of `items[parser->current_token++]` are three steps  *)
(* that the steps of another thread may separate.                          *)
(***************************************************************************)
\* if (parser->current_token < parser->tokens.count), and the whole
\* end-of-stream branch when the test fails
thread_test(t) ==
    /\ pc = "ready"
    /\ th[t].pc = "idle"
    /\ th[t].calls < MaxCalls
    /\ th' = [th EXCEPT ![t] =
                IF current_token < count
                THEN [@ EXCEPT !.pc = "load"]
                ELSE [@ EXCEPT !.calls = @ + 1]]
    /\ UNCHANGED << inputs, pc, scan_locals, tokens, capacity, current_token,
                    cursor_obs, stray, libs >>

\* the load of parser->current_token for the index of the returned slot
thread_load(t) ==
    /\ pc = "ready"
    /\ th[t].pc = "load"
    /\ th' = [th EXCEPT ![t] = [@ EXCEPT !.pc = "store", !.reg = current_token]]
    /\ UNCHANGED << inputs, pc, scan_locals, tokens, capacity, current_token,
                    cursor_obs, stray, libs >>

\* the store of the incremented cursor and the return of items[reg]
thread_store(t) ==
    /\ pc = "ready"
    /\ th[t].pc = "store"
    /\ current_token' = th[t].reg + 1
    /\ th' = [th EXCEPT ![t] = [@ EXCEPT !.pc = "idle",
                                         !.got = Append(@, th[t].reg),
                                         !.calls = @ + 1]]
    /\ UNCHANGED << inputs, pc, scan_locals, tokens, capacity, cursor_obs,
                    stray, libs >>

\* the parsers the threads share
ThreadBuffers ==
    { << >>, <<"a">>, <<"a", " ", "a">>, <<"\"", "a", "\"">>, <<"'", "a">> }

ThreadInit ==
    /\ Init
    /\ buffer \in ThreadBuffers
    /\ punctuation = EmptyTable
    /\ buffer_before = "x"
    /\ punc_len_before = 0
    /\ alloc_fails = "none"

ThreadNext ==
    \/ parser_init_alloc
    \/ parser_init_body
    \/ parser_init_double_quote
    \/ parser_init_single_quote
    \/ parser_init_word
    \/ parser_init_emit
    \/ parser_init_return
    \/ \E t \in Threads : thread_test(t)
    \/ \E t \in Threads : thread_load(t)
    \/ \E t \in Threads : thread_store(t)

ThreadSpec == ThreadInit /\ [][ThreadNext]_vars

(***************************************************************************)
(* kalloc.h: the allocations that kmem_alloc, kmem_calloc and kmem_free    *)
(* track.  items[k] of the C array is items[k + 1] here; the sequence      *)
(* holds the slots written so far.                                         *)
(***************************************************************************)
\* _kmem_append: the capacity is set on the first call and doubled when it
\* is below count, then the record is stored at items[count++]
_kmem_append(ptr) ==
    LET cap1 == IF kmem.capacity = -1 THEN KmemCapacity ELSE kmem.capacity
        cap2 == IF cap1 < kmem.count THEN cap1 * 2 ELSE cap1
        item == [ptr |-> ptr, freed |-> FALSE]
    IN [kmem EXCEPT
          !.capacity = cap2,
          !.items = IF kmem.count < Len(@)
                    THEN [@ EXCEPT ![kmem.count + 1] = item]
                    ELSE Append(@, item),
          !.count = @ + 1,
          !.heap = @ \cup {ptr}]

\* kmem_alloc when malloc returns a pointer
kmem_alloc ==
    /\ kmem.count < MaxTracked
    /\ \E ptr \in Pointers \ kmem.heap : kmem' = _kmem_append(ptr)
    /\ UNCHANGED << parser_state, fstr >>

\* kmem_calloc when calloc returns a pointer
kmem_calloc ==
    /\ kmem.count < MaxTracked
    /\ \E ptr \in Pointers \ kmem.heap : kmem' = _kmem_append(ptr)
    /\ UNCHANGED << parser_state, fstr >>

\* the indexes below count whose item holds ptr and is not freed
kmem_found(ptr) ==
    {k \in 0..(kmem.count - 1) :
        kmem.items[k + 1].ptr = ptr /\ ~kmem.items[k + 1].freed}

\* kmem_free of a pointer that an allocation returned and that was not
\* freed: the first item found below count is marked and count decremented,
\* and the pointer is freed
kmem_free ==
    /\ \E ptr \in kmem.heap :
          kmem' =
            IF kmem_found(ptr) # {}
            THEN LET k == CHOOSE k \in kmem_found(ptr) :
                              \A m \in kmem_found(ptr) : k <= m
                 IN [kmem EXCEPT
                       !.items[k + 1] = [ptr |-> 0, freed |-> TRUE],
                       !.count = @ - 1,
                       !.heap = @ \ {ptr}]
            ELSE [kmem EXCEPT !.heap = @ \ {ptr}]
    /\ UNCHANGED << parser_state, fstr >>

\* kmem_leaks()
kmem_leaks == kmem.count > 0

\* kalloc.h is used on its own: the parser is the one of the empty buffer
KmemInit ==
    /\ Init
    /\ buffer = << >>
    /\ punctuation = EmptyTable
    /\ options = 0
    /\ buffer_before = "x"
    /\ punc_len_before = 0
    /\ alloc_fails = "none"

KmemNext ==
    \/ kmem_alloc
    \/ kmem_calloc
    \/ kmem_free

KmemSpec == KmemInit /\ [][KmemNext]_vars

(***************************************************************************)
(* parser_init on a buffer of more tokens than the initial capacity.       *)
(***************************************************************************)
\* InitialCapacity + 1 words, a space after each
GrowBuffer ==
    [k \in 1..(2 * (InitialCapacity + 1)) |-> IF k % 2 = 1 THEN "a" ELSE " "]

GrowInit ==
    /\ buffer = GrowBuffer
    /\ parser_init_entry
    /\ punctuation = EmptyTable
    /\ options = 0
    /\ buffer_before = "x"
    /\ punc_len_before = 0
    /\ alloc_fails = "none"

GrowNext ==
    \/ parser_init_alloc
    \/ parser_init_body
    \/ parser_init_word
    \/ parser_init_emit
    \/ parser_init_return

GrowSpec == GrowInit /\ [][GrowNext]_vars

(***************************************************************************)
(* The fstr functions on one string.  fstr.bytes are the cap + 1 bytes     *)
(* after the header, str[k] being bytes[k + 1]; fstr.outside are the       *)
(* indexes outside 0 .. cap at which the last call read or wrote,          *)
(* fstr.len_before the len it found.                                       *)
(***************************************************************************)
\* the strings passed as init and as src
FstrLiterals == UNION {[1..k -> {"a", " "}] : k \in 0..2}

\* what the bytes that FMALLOC returns and nobody wrote may hold
FstrGarbage == {"x", " "}

\* str[k]; the byte before the string is the last byte of hdr->cap, which
\* is no space for a cap below 32
FstrAt(bytes, k) == IF 0 <= k /\ k < Len(bytes) THEN bytes[k + 1] ELSE "hdr"

\* bytes with str[k] = b
FstrPut(bytes, k, b) ==
    IF 0 <= k /\ k < Len(bytes) THEN [bytes EXCEPT ![k + 1] = b] ELSE bytes

\* the indexes of S that are outside the cap + 1 bytes of the string
outside_of(S, cap) == {k \in S : k < 0 \/ k > cap}

fstr_create ==
    /\ fstr.op = "none"
    /\ \E init \in FstrLiterals :
          fstr' = [len |-> Len(init), cap |-> Len(init),
                   bytes |-> Append(init, NUL), op |-> "create",
                   len_before |-> Len(init), outside |-> {}]
    /\ UNCHANGED << parser_state, kmem >>

\* the bytes of fstr_create_empty(cap): str[0] = NUL, the others unwritten
empty_bytes(cap) ==
    {b \in [1..(cap + 1) -> FstrGarbage \cup {NUL}] :
        b[1] = NUL /\ \A k \in 2..(cap + 1) : b[k] \in FstrGarbage}

fstr_create_empty ==
    /\ fstr.op = "none"
    /\ \E cap \in 0..MaxCap : \E b \in empty_bytes(cap) :
          fstr' = [len |-> 0, cap |-> cap, bytes |-> b, op |-> "create_empty",
                   len_before |-> 0, outside |-> {}]
    /\ UNCHANGED << parser_state, kmem >>

fstr_clear ==
    /\ fstr.op # "none"
    /\ fstr' = [fstr EXCEPT !.len = 0, !.bytes = FstrPut(@, 0, NUL),
                            !.op = "clear", !.len_before = fstr.len,
                            !.outside = {}]
    /\ UNCHANGED << parser_state, kmem >>

\* the string fstr_realloc(str, cap) returns, as the set of its outcomes:
\* when cap is below hdr->cap the len becomes cap, else the bytes move to
\* a new string of capacity cap
realloc_results(str, cap) ==
    IF cap < str.cap
    THEN {[str EXCEPT !.len = cap, !.bytes = FstrPut(@, cap, NUL),
                      !.outside = outside_of({cap}, str.cap)]}
    ELSE {[str EXCEPT
             !.cap = cap,
             !.bytes = [k \in 1..(cap + 1) |->
                          IF k <= str.len THEN FstrAt(str.bytes, k - 1)
                          ELSE IF k = str.len + 1 THEN NUL
                          ELSE b[k]],
             !.outside = outside_of(0..(str.len - 1), str.cap)
                            \cup outside_of({str.len}, cap)]
          : b \in empty_bytes(cap)}

fstr_realloc ==
    /\ fstr.op # "none"
    /\ \E cap \in 1..MaxCap : \E r \in realloc_results(fstr, cap) :
          fstr' = [r EXCEPT !.op = "realloc", !.len_before = fstr.len]
    /\ UNCHANGED << parser_state, kmem >>

\* fstr_append(dst, src): the string is reallocated to hdr->len + len when
\* hdr->cap is below that, then src is copied to dst + hdr->len
fstr_append ==
    /\ fstr.op # "none"
    /\ \E src \in FstrLiterals :
          /\ fstr.len + Len(src) <= MaxCap
          /\ \E d \in (IF fstr.cap < fstr.len + Len(src)
                        THEN realloc_results(fstr, fstr.len + Len(src))
                        ELSE {[fstr EXCEPT !.outside = {}]}) :
                LET len2 == d.len + Len(src)
                IN fstr' =
                     [d EXCEPT
                        !.len = len2,
                        !.bytes = [k \in 1..Len(@) |->
                                     IF d.len < k /\ k <= len2 THEN src[k - d.len]
                                     ELSE IF k = len2 + 1 THEN NUL
                                     ELSE @[k]],
                        !.outside = @ \cup outside_of(d.len..len2, d.cap),
                        !.op = "append",
                        !.len_before = fstr.len]
    /\ UNCHANGED << parser_state, kmem >>

\* index after `while(str[index] == ' ') index++;` started at k
RECURSIVE spaces_from(_, _)
spaces_from(bytes, k) ==
    IF FstrAt(bytes, k) = " " THEN spaces_from(bytes, k + 1) ELSE k

\* memcpy(str, str + index, len) copying from the last byte to the first:
\* the byte that arrives at str[k]
RECURSIVE copied_backward(_, _, _, _)
copied_backward(bytes, index, len, k) ==
    IF k + index >= len THEN FstrAt(bytes, k + index)
    ELSE copied_backward(bytes, index, len, k + index)

\* the string after fstr_trim_left, as the set of its outcomes: the two
\* areas of the memcpy overlap when spaces were skipped, and the copy runs
\* from the first byte or from the last
trim_left_results(str) ==
    LET index == spaces_from(str.bytes, 0)
        len2 == str.len - index
        reads == (0..index) \cup (index..(index + len2 - 1))
        forward == [k \in 1..Len(str.bytes) |->
                      IF k <= len2 THEN FstrAt(str.bytes, k - 1 + index)
                      ELSE IF k = len2 + 1 THEN NUL
                      ELSE str.bytes[k]]
        backward == [k \in 1..Len(str.bytes) |->
                       IF k <= len2
                       THEN copied_backward(str.bytes, index, len2, k - 1)
                       ELSE IF k = len2 + 1 THEN NUL
                       ELSE str.bytes[k]]
    IN {[str EXCEPT !.len = len2, !.bytes = b,
                    !.outside = outside_of(reads \cup {len2}, str.cap)]
        : b \in IF index > 0 /\ index < len2 THEN {forward, backward}
                ELSE {forward}}

\* index after `while(index >= 0 && str[index] == ' ') index--;` started
\* at k: index is a size_t, so index >= 0 is always true, and the value
\* below 0 is SIZE_MAX, with which str[index] is the byte before the string
RECURSIVE spaces_back_from(_, _)
spaces_back_from(bytes, k) ==
    IF FstrAt(bytes, k) = " " THEN spaces_back_from(bytes, k - 1) ELSE k

\* the string after fstr_trim_right; hdr->len = index + 1 wraps to 0 when
\* index is SIZE_MAX
trim_right_result(str) ==
    LET index == spaces_back_from(str.bytes, str.len - 1)
        len2 == index + 1
    IN [str EXCEPT !.len = len2, !.bytes = FstrPut(@, len2, NUL),
                   !.outside = @ \cup outside_of((index..(str.len - 1)) \cup {len2},
                                                str.cap)]

fstr_trim_left ==
    /\ fstr.op # "none"
    /\ \E r \in trim_left_results(fstr) :
          fstr' = [r EXCEPT !.op = "trim_left", !.len_before = fstr.len]
    /\ UNCHANGED << parser_state, kmem >>

fstr_trim_right ==
    /\ fstr.op # "none"
    /\ fstr' = [trim_right_result([fstr EXCEPT !.outside = {}])
                  EXCEPT !.op = "trim_right", !.len_before = fstr.len]
    /\ UNCHANGED << parser_state, kmem >>

\* fstr_trim: fstr_trim_left, then fstr_trim_right
fstr_trim ==
    /\ fstr.op # "none"
    /\ \E r \in trim_left_results(fstr) :
          fstr' = [trim_right_result(r)
                    EXCEPT !.op = "trim", !.len_before = fstr.len]
    /\ UNCHANGED << parser_state, kmem >>

\* the fstr functions are used on their own: the parser is the one of the
\* empty buffer
FstrInit ==
    /\ Init
    /\ buffer = << >>
    /\ punctuation = EmptyTable
    /\ options = 0
    /\ buffer_before = "x"
    /\ punc_len_before = 0
    /\ alloc_fails = "none"

FstrNext ==
    \/ fstr_create
    \/ fstr_create_empty
    \/ fstr_clear
    \/ fstr_realloc
    \/ fstr_append
    \/ fstr_trim_left
    \/ fstr_trim_right
    \/ fstr_trim

FstrSpec == FstrInit /\ [][FstrNext]_vars

\* parser_init is a sequential function: a step that can be taken is taken
FairSpec == Spec /\ WF_vars(parser_init_step)

(***************************************************************************)
(* Properties                                                              *)
(***************************************************************************)
\* the slots of p->tokens.items that hold a token of the sequence
token_slots == 0 .. (count - 1)

\* literal lit is a strict prefix of literal long
strict_prefix(lit, long) ==
    /\ Len(lit) < Len(long)
    /\ \A j \in 1..Len(lit) : lit[j] = long[j]

\* the buffer holds every byte of punctuation entry k at off .. off+len-1
fully_matches(k, off) ==
    /\ off + punctuation[k + 1].len <= buffer_size
    /\ \A j \in 0..(punctuation[k + 1].len - 1) : BufAt(off + j) = PuncAt(k, j)

\* C1: when the table holds a literal L and a strict prefix P of L, in
\* either registration order, and the buffer begins with L, the first token
\* of the stream is the Punctuation token of L (its text and its id), never
\* the token of P.
C1_LongestMatchWins ==
    pc = "ready" =>
        \A l \in 0..(Len(punctuation) - 1), p \in 0..(Len(punctuation) - 1) :
            (strict_prefix(punctuation[p + 1].p, punctuation[l + 1].p)
                /\ fully_matches(l, 0))
            => /\ count >= 1
               /\ tokens[1].id = punctuation[l + 1].id
               /\ tokens[1].token = punctuation[l + 1].p
               /\ tokens[1].offset = 0

\* C2: parser_is_punctuation reports entry k at an offset only if every
\* byte of k's literal equals the buffer bytes at offset .. offset+len-1,
\* all of them inside the buffer (a literal that would run past the end of
\* the buffer is no match), and it returns -1 when no entry fully matches.
C2_OnlyFullMatches ==
    /\ (pc = "emit" /\ is_punc >= 0) => fully_matches(is_punc, i)
    /\ \A off \in 0..buffer_size :
          (\A k \in 0..(Len(punctuation) - 1) : ~fully_matches(k, off))
          => parser_is_punctuation(off) = -1

ParenBuffer == <<"(", "a", "+", "b", ")">>

\* the tokens, in order, of "(a+b)" under the table ( 0, ) 1, + 2
ParenExpected ==
    << [id |-> 0, token |-> <<"(">>], [id |-> WordId, token |-> <<"a">>],
       [id |-> 2, token |-> <<"+">>], [id |-> WordId, token |-> <<"b">>],
       [id |-> 1, token |-> <<")">>] >>

\* C3: with the table ( 0, ) 1, + 2 and the buffer "(a+b)", the calls of
\* parser_get_token after parser_init return, in this order, Punctuation
\* "(" id 0, Word "a" id -1, Punctuation "+" id 2, Word "b" id -1,
\* Punctuation ")" id 1 and then the end-of-stream token (id -2).
C3_ParenSequence ==
    (buffer = ParenBuffer /\ punctuation = ParenTable
        /\ last_op = "get" /\ gets \in 1..6)
    => IF gets <= 5
       THEN /\ ret.id = ParenExpected[gets].id
            /\ ret.token = ParenExpected[gets].token
       ELSE ret.id = EofId

\* the two reads parser_init makes outside its arrays return values that
\* do no harm: no backslash before the buffer, 0 before the table
harmless_memory == buffer_before # "\\" /\ punc_len_before = 0

\* every allocation parser_init makes succeeds
memory_suffices == alloc_fails = "none"

\* C4: parser_init terminates for every buffer, table and option set: the
\* scan reaches the end of the buffer and parser_init returns.  Stated for
\* the runs with harmless_memory in which no allocation fails, where
\* termination has its best case.
C4_InitTerminates == (harmless_memory /\ memory_suffices) => <>(pc = "ready")

\* C5: on a freshly constructed stream of count tokens the k-th call of
\* parser_get_token (1 <= k <= count) returns the k-th token and leaves the
\* cursor at k, and call count+1 returns the end-of-stream token (id -2).
C5_KthGetReturnsKthToken ==
    (last_op = "get" /\ gets >= 1)
    => /\ gets <= count => (ret = tokens[gets] /\ current_token = gets)
       /\ gets = count + 1 => ret.id = EofId

\* C6: on a stream with no token (an empty buffer, or one that yields no
\* token) the first parser_get_token call returns the end-of-stream token
\* (id -2) and reads no slot outside the (empty) token sequence.  Stated
\* for the calls made with the cursor at 0.
C6_EmptyStreamFirstGet ==
    (pc = "ready" /\ count = 0 /\ last_op = "get" /\ gets = 1
        /\ cursor_before = 0)
    => /\ ret.id = EofId
       /\ read_slots \subseteq token_slots

\* C7: once the cursor equals the token count, every parser_get_token call
\* returns an end-of-stream token (id -2, len 3, no text) and leaves the
\* cursor unchanged, and a call that follows such a call returns a token
\* with identical fields (same line, same offset).
C7_EofIdempotent ==
    [][(pc = "ready" /\ current_token = count /\ last_op' = "get")
        => /\ ret'.id = EofId
           /\ ret'.len = EofLen
           /\ ret'.token = Nullptr
           /\ current_token' = current_token
           /\ (last_op = "get" /\ ret.id = EofId) => ret' = ret]_vars

\* C8: the cursor is 0 right after parser_init, stays within [0, count]
\* after any sequence of get, peek, unget and get_line calls, and no call
\* reads a token slot at an index outside [0, count-1].
C8_CursorInRange ==
    pc = "ready"
    => /\ last_op = "init" => current_token = 0
       /\ 0 <= current_token /\ current_token <= count
       /\ read_slots \subseteq token_slots

\* C9: parser_unget_token decrements the cursor by exactly one when it is
\* positive and leaves it at 0 when it is 0; it never makes the cursor
\* negative and changes nothing else of the stream.
C9_UngetClamped ==
    [][(pc = "ready" /\ last_op' = "unget")
        => /\ current_token > 0 => current_token' = current_token - 1
           /\ current_token = 0 => current_token' = 0
           /\ current_token >= 0 => current_token' >= 0
           /\ UNCHANGED << buffer, punctuation, options, tokens, capacity >>]_vars

\* C9 witness: parser_unget_token was called with the cursor at 0, on a
\* stream that holds tokens, and the cursor is still 0.
C9_Witness ==
    /\ pc = "ready"
    /\ last_op = "unget"
    /\ cursor_before = 0
    /\ current_token = 0
    /\ count >= 1

\* C10: parser_peek_token leaves the cursor and the token sequence
\* unchanged; it returns the token one position ahead of the cursor when
\* that position holds a token of the sequence and the end-of-stream token
\* (id -2) when it does not, in particular with the cursor at count-1.
\* Stated for the calls made with the cursor within [0, count].
C10_PeekLooksOneAhead ==
    [][(pc = "ready" /\ last_op' = "peek"
            /\ 0 <= current_token /\ current_token <= count)
        => /\ UNCHANGED << current_token, tokens >>
           /\ IF current_token + 1 \in token_slots
              THEN ret' = tokens[current_token + 2]
              ELSE ret'.id = EofId]_vars

\* C11: parser_get_line returns the line of the token at the cursor while
\* the cursor is below count and the line of the last token of the sequence
\* once the cursor equals count; it reads no slot at or beyond count.
\* Stated for the calls made with the cursor within [0, count] on a stream
\* that holds a token.
C11_GetLineAtCursor ==
    (pc = "ready" /\ last_op = "line" /\ count >= 1
        /\ 0 <= cursor_before /\ cursor_before <= count)
    => /\ cursor_before < count => line_ret = tokens[cursor_before + 1].line
       /\ cursor_before = count => line_ret = tokens[count].line
       /\ \A k \in read_slots : k < count

\* the quote bytes the options make parser_init treat as delimiters
accepted_quotes ==
    (IF has_option(P_ACCEPT_DOUBLEQUOTES) THEN {"\""} ELSE {})
        \cup (IF has_option(P_ACCEPT_SINGLEQUOTES) THEN {"'"} ELSE {})

\* the offsets after off that hold the byte q not preceded by a backslash
closing_quotes(off, q) ==
    {k \in (off + 1)..(buffer_size - 1) : BufAt(k) = q /\ BufAt(k - 1) # "\\"}

\* the least element of a non-empty set of integers
least(S) == CHOOSE k \in S : \A m \in S : k <= m

\* sub occurs in text as a run of consecutive bytes
contains(text, sub) ==
    \E k \in 0..(Len(text) - Len(sub)) :
        \A j \in 1..Len(sub) : text[k + j] = sub[j]

EscapedQuoteBuffer == <<"\"", "a", "\\", "\"", "b", "\"", " ", "c">>

\* C12: with the quote option set, a token that starts at a quote byte is
\* a Word token whose span ends at the first later quote byte of the same
\* kind that no backslash precedes (the span ends just before or just after
\* that byte); and the buffer "a\"b" c with P_ACCEPT_DOUBLEQUOTES yields
\* exactly two tokens, the first containing the bytes a\"b, the second c.
\* Stated for the runs in which the memory outside the arrays does no harm.
C12_QuotedSpan ==
    (pc = "ready" /\ harmless_memory /\ memory_suffices)
    => /\ \A n \in 1..count :
            LET t == tokens[n]
                q == BufAt(t.offset)
            IN (q \in accepted_quotes /\ closing_quotes(t.offset, q) # {})
               => /\ t.id = WordId
                  /\ t.offset + t.len \in
                        { least(closing_quotes(t.offset, q)),
                          least(closing_quotes(t.offset, q)) + 1 }
       /\ (buffer = EscapedQuoteBuffer /\ has_option(P_ACCEPT_DOUBLEQUOTES))
          => /\ count = 2
             /\ tokens[1].id = WordId
             /\ contains(tokens[1].token, <<"a", "\\", "\"", "b">>)
             /\ tokens[2].id = WordId
             /\ tokens[2].token = <<"c">>

\* the buffer is spaces, then at offset s an accepted quote byte that is
\* no punctuation, then bytes none of which is that quote byte
unterminated_quote_at(s) ==
    /\ s < buffer_size
    /\ \A k \in 0..(s - 1) : BufAt(k) = " "
    /\ BufAt(s) \in accepted_quotes
    /\ parser_is_punctuation(s) = -1
    /\ \A k \in (s + 1)..(buffer_size - 1) : BufAt(k) # BufAt(s)

\* C13: when a quoted span has no closing quote, parser_init reads no byte
\* outside buffer[0 .. buffer_size], and it returns a stream whose one
\* token is a Word that starts at the opening quote and ends where the
\* buffer ends (offset + len = buffer_size).
C13_UnterminatedQuote ==
    \A s \in 0..(buffer_size - 1) :
        (memory_suffices /\ unterminated_quote_at(s))
        => /\ "buffer[-1]" \notin stray
           /\ pc = "ready"
                => /\ count = 1
                   /\ tokens[1].id = WordId
                   /\ tokens[1].offset = s
                   /\ tokens[1].offset + tokens[1].len = buffer_size

\* the number of '\n' bytes before offset off
newlines_before(off) == Cardinality({k \in 0..(off - 1) : BufAt(k) = "\n"})

\* C14: the line of every token of the sequence is the number of '\n'
\* bytes before the token's offset: each newline is counted once, also
\* after spaces, a tab or a '\r'; in a\nb the token b has line 1.
C14_LineCountsNewlines ==
    (harmless_memory /\ memory_suffices)
    => \A n \in 1..count : tokens[n].line = newlines_before(tokens[n].offset)

\* the bytes that separate tokens
Separators == {" ", "\t", "\r", "\n"}

\* the offsets of the span of a token
span(t) == t.offset .. (t.offset + t.len - 1)

\* the spans of the tokens lie inside the buffer and every byte outside
\* them is a separator
spans_cover_buffer ==
    /\ \A n \in 1..count :
          0 <= tokens[n].offset /\ tokens[n].offset + tokens[n].len <= buffer_size
    /\ \A k \in 0..(buffer_size - 1) :
          (\A n \in 1..count : k \notin span(tokens[n]))
          => BufAt(k) \in Separators

\* every punctuation match in the buffer is a match of the whole literal
full_matches_only ==
    \A off \in 0..(buffer_size - 1) :
        parser_is_punctuation(off) # -1
        => fully_matches(parser_is_punctuation(off), off)

\* C15: the end-of-stream token that parser_get_token and parser_peek_token
\* return has id -2, len 3, no text, the line of the last token plus 1 and
\* the offset buffer_size, also when whitespace follows the last token.
\* Stated for the calls made with the cursor at count on a stream that
\* holds a token, when the tokens cover the buffer up to separators.
C15_EofSentinel ==
    (pc = "ready" /\ last_op \in {"get", "peek"}
        /\ count >= 1 /\ cursor_before = count /\ spans_cover_buffer)
    => /\ ret.id = EofId
       /\ ret.len = EofLen
       /\ ret.token = Nullptr
       /\ ret.line = tokens[count].line + 1
       /\ ret.offset = buffer_size

\* C16: the spans [offset, offset+len) of the tokens lie inside the buffer,
\* each ends before the next begins, the text of each token is the bytes of
\* its span, and every byte of the buffer outside all spans is a separator.
\* Stated for the runs in which the memory outside the arrays does no harm
\* and for the buffers in which no literal is matched in part.
C16_SpansReconstructBuffer ==
    (pc = "ready" /\ harmless_memory /\ memory_suffices /\ full_matches_only)
    => /\ spans_cover_buffer
       /\ \A n \in 1..count :
            tokens[n].token
              = SubSeq(buffer, tokens[n].offset + 1,
                       tokens[n].offset + tokens[n].len)
       /\ \A n \in 1..(count - 1) :
            tokens[n].offset + tokens[n].len <= tokens[n + 1].offset

\* C17: every token parser_init stores in the token sequence has len > 0,
\* for every buffer: a word of length zero (a lone '\n' or tab, trailing
\* whitespace) is dropped.
C17_NoEmptyToken == \A n \in 1..count : tokens[n].len > 0

\* C17 witness: parser_init returned a stream of tokens for a buffer that
\* holds a '\n' where a word would start, so that a word of length zero was
\* built and dropped.
C17_Witness ==
    /\ pc = "ready"
    /\ count >= 1
    /\ \E k \in 0..(buffer_size - 1) :
          /\ BufAt(k) = "\n"
          /\ (k = 0 \/ BufAt(k - 1) = " ")

\* C18: parser_init never stores through the null pointer of a failed
\* allocation; when the allocation of the parser record fails it returns
\* nullptr, and nothing else makes it return nullptr.
C18_AllocationFailure ==
    /\ "null" \notin stray
    /\ alloc_fails = "record" => pc \in {"alloc", "null"}
    /\ pc = "null" => alloc_fails = "record"

\* the slots returned so far to the callers on all threads
returned_slots == UNION {{th[t].got[n] : n \in 1..Len(th[t].got)} : t \in Threads}

\* C19: when two threads interleave parser_get_token calls on one parser, a
\* call returns a slot that no call returned before, no slot between the
\* slots returned is skipped, and the cursor does not pass count.  Stated
\* for the calls that loaded a cursor of 0 or more and store theirs while
\* the cursor is within [0, count], no slot below 0 having been returned.
C19_ThreadSafeGet ==
    [][\A t \in Threads :
          (th[t].pc = "store" /\ th'[t].pc = "idle" /\ 0 <= th[t].reg
              /\ 0 <= current_token /\ current_token <= count
              /\ \A k \in returned_slots : 0 <= k)
          => /\ th[t].reg \notin returned_slots
             /\ \A k \in returned_slots :
                   \A j \in k..th[t].reg : j \in returned_slots \cup {th[t].reg}
             /\ current_token' <= count]_vars

\* the token at index n of the sequence comes from the plain-word branch
plain_word(n) ==
    /\ tokens[n].id = WordId
    /\ BufAt(tokens[n].offset) \notin accepted_quotes

\* C20: a Word token of the plain-word branch holds no space, tab or '\n'
\* and no offset at which parser_is_punctuation matches, and it is maximal:
\* the byte after its span is the end of the buffer, a separator or the
\* start of a punctuation match.  Stated for the runs in which the memory
\* outside the arrays does no harm.
C20_PlainWordMaximal ==
    (harmless_memory /\ memory_suffices)
    => \A n \in 1..count :
          plain_word(n)
          => /\ \A j \in 1..Len(tokens[n].token) :
                   tokens[n].token[j] \notin {" ", "\t", "\n"}
             /\ \A k \in span(tokens[n]) : parser_is_punctuation(k) = -1
             /\ LET e == tokens[n].offset + tokens[n].len
                IN \/ e >= buffer_size
                   \/ BufAt(e) \in Separators
                   \/ parser_is_punctuation(e) # -1

\* C21: after any sequence of kmem_alloc, kmem_calloc and kmem_free calls,
\* each free given a pointer that an allocation returned and that was not
\* freed yet, kmem_leaks() is true exactly when an allocation has not been
\* freed; it is false once all are freed, in whatever order.
C21_LeaksIffUnfreed == kmem_leaks <=> kmem.heap # {}

\* C22: whenever parser_init has stored a token, the bytes allocated for
\* the token array hold all count tokens of the sequence, also past the
\* initial capacity of 255, and none of its stores went past the array.
C22_ArrayHoldsTokens ==
    memory_suffices
    => /\ count * TokenSize <= items_bytes
       /\ "items[count]" \notin stray

\* the token whose text the step at "emit" allocates and writes
pending_token == IF is_punc >= 0 THEN punc_token(is_punc) ELSE word_token

\* C23: every index at which parser_init writes the text of a token, the
\* copied bytes and the terminating NUL, is below the number of bytes
\* allocated for that text, for words and for punctuations.
C23_TextWritesInBounds ==
    (pc = "emit" /\ memory_suffices)
    => \A idx \in text_written(pending_token) :
          idx < text_allocated(pending_token)

\* C24: after any sequence of fstr_create, fstr_create_empty, fstr_append,
\* fstr_clear, fstr_realloc, fstr_trim_left, fstr_trim_right and fstr_trim
\* calls the header has len <= cap, the byte at index len is NUL, no call
\* but fstr_append has increased len, and the call read and wrote no byte
\* outside the cap + 1 bytes of the string.
C24_FstrInvariants ==
    fstr.op # "none"
    => /\ fstr.len <= fstr.cap
       /\ FstrAt(fstr.bytes, fstr.len) = NUL
       /\ fstr.op \notin {"create", "create_empty", "append"}
             => fstr.len <= fstr.len_before
       /\ fstr.outside = {}

====
